---- MODULE Spec2Model ----
(***************************************************************************)
(* Model of the Verilated register-file simulation kernel (obj_dir/).      *)
(* One instance: the symbol table object Vregfile__Syms with its TOP       *)
(* module state, driven through the public references clock/reset/val and  *)
(* Vregfile::eval_step.                                                    *)
(*                                                                         *)
(* Integers wider than 31 bits are kept as little-endian vectors of 16-bit *)
(* limbs: val is <<bits 0-15, bits 16-31>>, regfile__DOT__regs is          *)
(* <<bits 0-15, bits 16-31, bits 32-47, bits 48-63>>.                      *)
(***************************************************************************)
EXTENDS Integers, Sequences, FiniteSets

VARIABLES
    vlSymsp,    \* the instance: Vregfile__Syms with the fields of its TOP
    rig,        \* test rig: the region whose phase is forced to report activity
    vl_debug,   \* the build: TRUE when the model was compiled with VL_DEBUG
    nEvals,     \* history: number of eval_step calls made so far
    pre,        \* history: the instance as it was when the latest eval_step began
    lastIn,     \* history: <<clock, reset>> seen by the eval_step before the latest
    k,          \* history: rising clock edges counted since the register was cleared
    two,        \* two instances side by side: <<Vregfile__Syms, Vregfile__Syms>>
    twoEvals,   \* history: number of eval_step calls made on the two instances
    twoLast,    \* history: the instance the latest operation was called on, 0 for both
    main        \* the generated main(): its position, the context's time, its model

vars == <<vlSymsp, rig, vl_debug, nEvals, pre, lastIn, k, two, twoEvals, twoLast, main>>

\* ------------------------------------------------------------------ bounds
MaxEvals == 6

InputValues == {0, 1, 2}

ValInit == {<<0, 0>>, <<65535, 65535>>, <<4660, 22136>>}

RegSamples ==
    { <<0, 0, 0, 0>>,
      <<65535, 65535, 0, 0>>,
      <<65535, 65535, 65535, 65535>>,
      <<65535, 7, 9, 11>>,
      <<5, 65535, 65535, 0>>,
      <<4, 6, 1, 32768>> }

\* ------------------------------------------------------- program constants
ConvergeLimit == 100

\* ---------------------------------------------------------------- helpers
Bit(x, i) == (x \div (2 ^ i)) % 2

\* The debug message log: every generated function under src/ reports its
\* entry; the register and the active and NBA trigger vectors are noted
\* beside the message.
DBG(st, msg) ==
    [st EXCEPT !.dbg = Append(@, [msg  |-> msg,
                                  regs |-> st.regfile__DOT__regs,
                                  act  |-> st.__VactTriggered,
                                  nba  |-> st.__VnbaTriggered])]

\* VL_FATAL_MT: the process reports the message and aborts.
VL_FATAL_MT(st, msg) == [st EXCEPT !.vl_fatal = msg]

\* ------------------------------------------------- the sequential logic
\* val = (0xe & ((IData)(regs >> 17) << 1)) | (1 & (IData)regs), as the
\* NBA block computes it: bits 17-19 of the register land on bits 1-3.
nba_val(r) == << (((r[2] \div 2) % 8) * 2) + (r[1] % 2), 0 >>

\* Fault: the settle block shifts the register by 16 where the sequential
\* block shifts by 17.
stl_val_shift16(r) == << ((r[2] % 8) * 2) + (r[1] % 2), 0 >>

\* The same expression in the settle block.
stl_val(r) == << (((r[2] \div 2) % 8) * 2) + (r[1] % 2), 0 >>

\* Fault: the sum is not cut to 32 bits, so it carries into bit 32.
nba_incr_low_carry(dly, r) ==
    LET c1 == (r[1] + 1) \div 65536
        c2 == (r[2] + c1) \div 65536
    IN  << (r[1] + 1) % 65536, (r[2] + c1) % 65536, (dly[3] + c2) % 65536, dly[4] >>

\* (0xffffffff00000000 & dly) | (IData)(1 + (IData)regs): a 32-bit add on
\* the two low limbs of the register as read at block entry.
nba_incr_low(dly, r) ==
    << (r[1] + 1) % 65536, (r[2] + ((r[1] + 1) \div 65536)) % 65536, dly[3], dly[4] >>

\* Fault: the field is merged under the mask 0xffffffff00000000, which also
\* clears bits 0-15.
nba_incr_field_mask(dly, r) ==
    << 0, (r[2] + 1) % 65536, dly[3], dly[4] >>

\* Fault: the field is computed from the delayed copy the first assignment
\* has just written (a blocking assignment), so it sees the carry out of bit 15.
nba_incr_field_blocking(dly, r) ==
    << dly[1], (dly[2] + 1) % 65536, dly[3], dly[4] >>

\* Fault: the second assignment is missing, bits 16-31 keep the 32-bit add.
nba_incr_field_none(dly, r) == dly

\* (0xffffffff0000ffff & dly) | ((QData)(IData)(0xffff & (1 + (IData)(regs >> 16))) << 16)
nba_incr_field(dly, r) ==
    << dly[1], (r[2] + 1) % 65536, dly[3], dly[4] >>

\* Fault: reset clears the low 32 bits only.
Vregfile___024root___nba_sequent__TOP__0_reset32(st0) ==
    LET st   == DBG(st0, "nba_sequent__TOP__0")
        r    == st.regfile__DOT__regs
        dly  == IF st.reset # 0
                THEN <<0, 0, r[3], r[4]>>
                ELSE nba_incr_field(nba_incr_low(r, r), r)
    IN  [st EXCEPT !.regfile__DOT__regs = dly, !.val = nba_val(dly)]

Vregfile___024root___nba_sequent__TOP__0(st0) ==
    LET st   == DBG(st0, "nba_sequent__TOP__0")
        r    == st.regfile__DOT__regs
        dly  == IF st.reset # 0
                THEN <<0, 0, 0, 0>>
                ELSE nba_incr_field(nba_incr_low(r, r), r)
    IN  [st EXCEPT !.regfile__DOT__regs = dly, !.val = nba_val(dly)]

Vregfile___024root___eval_act(st) == DBG(st, "eval_act")

\* Fault: the block is dispatched once per trigger bit that is set.
Vregfile___024root___eval_nba_each(st0) ==
    LET st == DBG(st0, "eval_nba")
        s1 == IF 0 \in st.__VnbaTriggered
              THEN Vregfile___024root___nba_sequent__TOP__0(st)
              ELSE st
    IN  IF 1 \in s1.__VnbaTriggered
        THEN Vregfile___024root___nba_sequent__TOP__0(s1)
        ELSE s1

\* Fault: the block is dispatched on the clock trigger only (1 & word).
Vregfile___024root___eval_nba_clockonly(st0) ==
    LET st == DBG(st0, "eval_nba")
    IN  IF st.__VnbaTriggered \cap {0} # {}
        THEN Vregfile___024root___nba_sequent__TOP__0(st)
        ELSE st

Vregfile___024root___eval_nba(st0) ==
    LET st == DBG(st0, "eval_nba")
    IN  IF st.__VnbaTriggered \cap {0, 1} # {}
        THEN Vregfile___024root___nba_sequent__TOP__0(st)
        ELSE st

\* ------------------------------------------------------------- triggers
\* The two trigger functions are declared in the sources and defined in a
\* file that is not among them; they follow the design description: a trigger
\* is a rising edge of the signal against its snapshot, the snapshot is then
\* refreshed, and the settle trigger is the first-iteration flag.

\* cur & ~prev is non-zero: some bit is set now that was clear at the snapshot.
Rose(cur, prev) == \E i \in 0..7 : Bit(cur, i) = 1 /\ Bit(prev, i) = 0

Vregfile___024root___eval_triggers__act(st) ==
    [st EXCEPT
           !.__VactTriggered =
               (IF Rose(st.clock, st.__Vtrigprevexpr___TOP__clock__0) THEN {0} ELSE {})
               \cup
               (IF Rose(st.reset, st.__Vtrigprevexpr___TOP__reset__0) THEN {1} ELSE {}),
           !.__Vtrigprevexpr___TOP__clock__0 = st.clock,
           !.__Vtrigprevexpr___TOP__reset__0 = st.reset]

Vregfile___024root___eval_triggers__stl(st) ==
    [st EXCEPT !.__VstlTriggered = IF st.__VstlFirstIteration # 0 THEN {0} ELSE {}]

\* --------------------------------------------------------------- phases
\* Fault: the active phase runs the NBA logic itself as soon as it has
\* found a trigger.
Vregfile___024root___eval_phase__act_nba(st0) ==
    LET st  == Vregfile___024root___eval_triggers__act(DBG(st0, "eval_phase__act"))
        __VactExecute == st.__VactTriggered # {}
    IN  [st  |-> IF __VactExecute
                 THEN Vregfile___024root___eval_nba(
                        Vregfile___024root___eval_act(
                          [st EXCEPT !.__VnbaTriggered = @ \cup st.__VactTriggered]))
                 ELSE st,
         ret |-> __VactExecute \/ rig = "act"]

\* Fault: the active phase does not pass its triggers on to the NBA vector.
Vregfile___024root___eval_phase__act_lost(st0) ==
    LET st  == Vregfile___024root___eval_triggers__act(DBG(st0, "eval_phase__act"))
        __VactExecute == st.__VactTriggered # {}
    IN  [st  |-> IF __VactExecute
                 THEN Vregfile___024root___eval_act(st)
                 ELSE st,
         ret |-> __VactExecute \/ rig = "act"]

Vregfile___024root___eval_phase__act(st0) ==
    LET st  == Vregfile___024root___eval_triggers__act(DBG(st0, "eval_phase__act"))
        __VactExecute == st.__VactTriggered # {}
    IN  [st  |-> IF __VactExecute
                 THEN Vregfile___024root___eval_act(
                          [st EXCEPT !.__VnbaTriggered = @ \cup st.__VactTriggered])
                 ELSE st,
         ret |-> __VactExecute \/ rig = "act"]

\* Fault: the NBA phase neither clears its trigger vector nor reports that
\* it ran.
Vregfile___024root___eval_phase__nba_stale(st0) ==
    LET st  == DBG(st0, "eval_phase__nba")
        __VnbaExecute == st.__VnbaTriggered # {}
    IN  [st  |-> IF __VnbaExecute
                 THEN Vregfile___024root___eval_nba(st)
                 ELSE st,
         ret |-> rig = "nba"]

Vregfile___024root___eval_phase__nba(st0) ==
    LET st  == DBG(st0, "eval_phase__nba")
        __VnbaExecute == st.__VnbaTriggered # {}
    IN  [st  |-> IF __VnbaExecute
                 THEN [Vregfile___024root___eval_nba(st) EXCEPT !.__VnbaTriggered = {}]
                 ELSE st,
         ret |-> __VnbaExecute \/ rig = "nba"]

Vregfile___024root___stl_sequent__TOP__0(st0) ==
    LET st == DBG(st0, "stl_sequent__TOP__0")
    IN  [st EXCEPT !.val = stl_val(st.regfile__DOT__regs)]

Vregfile___024root___eval_stl(st0) ==
    LET st == DBG(st0, "eval_stl")
    IN  IF 0 \in st.__VstlTriggered
        THEN Vregfile___024root___stl_sequent__TOP__0(st)
        ELSE st

Vregfile___024root___eval_phase__stl(st0) ==
    LET st  == Vregfile___024root___eval_triggers__stl(DBG(st0, "eval_phase__stl"))
        __VstlExecute == st.__VstlTriggered # {}
    IN  [st  |-> IF __VstlExecute THEN Vregfile___024root___eval_stl(st) ELSE st,
         ret |-> __VstlExecute \/ rig = "stl"]

\* ---------------------------------------------------------------- loops
\* A while loop is run as at most n trips through its head, halving n so that
\* the evaluation nests only log(n) deep; a loop that was left, or whose
\* process aborted, makes no further trip.  Every loop is left within
\* ConvergeLimit + 2 trips: its counter grows by one per pass and the trip
\* that finds it above ConvergeLimit aborts.

\* Fault: the settle loop aborts when its counter has reached the limit
\* instead of when it has passed it.
eval_settle__trip_le(ls) ==
    IF ~ls.cont \/ ls.st.vl_fatal # "none" THEN ls
    ELSE IF ConvergeLimit <= ls.iter
    THEN [ls EXCEPT !.st = VL_FATAL_MT(ls.st, "Settle region did not converge.")]
    ELSE LET p == Vregfile___024root___eval_phase__stl(ls.st)
         IN  [st   |-> [p.st EXCEPT !.__VstlFirstIteration = 0],
              iter |-> 1 + ls.iter,
              cont |-> p.ret]

\* Fault: the settle loop never clears __VstlFirstIteration.
eval_settle__trip_first(ls) ==
    IF ~ls.cont \/ ls.st.vl_fatal # "none" THEN ls
    ELSE IF ConvergeLimit < ls.iter
    THEN [ls EXCEPT !.st = VL_FATAL_MT(ls.st, "Settle region did not converge.")]
    ELSE LET p == Vregfile___024root___eval_phase__stl(ls.st)
         IN  [st |-> p.st, iter |-> 1 + ls.iter, cont |-> p.ret]

\* One trip of the settle loop of eval_settle; iter and cont are its locals
\* __VstlIterCount and __VstlContinue.
eval_settle__trip(ls) ==
    IF ~ls.cont \/ ls.st.vl_fatal # "none" THEN ls
    ELSE IF ConvergeLimit < ls.iter
    THEN [ls EXCEPT !.st = VL_FATAL_MT(ls.st, "Settle region did not converge.")]
    ELSE LET p == Vregfile___024root___eval_phase__stl(ls.st)
         IN  [st   |-> [p.st EXCEPT !.__VstlFirstIteration = 0],
              iter |-> 1 + ls.iter,
              cont |-> p.ret]

RECURSIVE eval_settle__while(_, _)
eval_settle__while(ls, n) ==
    IF ~ls.cont \/ ls.st.vl_fatal # "none" \/ n = 0 THEN ls
    ELSE IF n = 1 THEN eval_settle__trip(ls)
    ELSE eval_settle__while(eval_settle__while(ls, n \div 2), n - (n \div 2))

Vregfile___024root___eval_settle(st0) ==
    LET st == DBG(st0, "eval_settle")
    IN  eval_settle__while([st   |-> [st EXCEPT !.__VstlFirstIteration = 1],
                            iter |-> 0,
                            cont |-> TRUE],
                           ConvergeLimit + 2).st

\* One trip of the active loop of eval; its counter and flag are members of
\* the module.
eval__trip_act(st) ==
    IF st.__VactContinue = 0 \/ st.vl_fatal # "none" THEN st
    ELSE IF ConvergeLimit < st.__VactIterCount
    THEN VL_FATAL_MT(st, "Active region did not converge.")
    ELSE LET p == Vregfile___024root___eval_phase__act(
                      [st EXCEPT !.__VactIterCount = 1 + @, !.__VactContinue = 0])
         IN  IF p.ret THEN [p.st EXCEPT !.__VactContinue = 1] ELSE p.st

RECURSIVE eval__while_act(_, _)
eval__while_act(st, n) ==
    IF st.__VactContinue = 0 \/ st.vl_fatal # "none" \/ n = 0 THEN st
    ELSE IF n = 1 THEN eval__trip_act(st)
    ELSE eval__while_act(eval__while_act(st, n \div 2), n - (n \div 2))

\* Fault: a sweep runs the NBA phase first and the active loop after it.
eval__trip_nba_swapped(ls) ==
    IF ~ls.cont \/ ls.st.vl_fatal # "none" THEN ls
    ELSE IF ConvergeLimit < ls.iter
    THEN [ls EXCEPT !.st = VL_FATAL_MT(ls.st, "NBA region did not converge.")]
    ELSE LET p == Vregfile___024root___eval_phase__nba(ls.st)
             a == eval__while_act(
                      [p.st EXCEPT !.__VactIterCount = 0, !.__VactContinue = 1],
                      ConvergeLimit + 2)
         IN  [st |-> a, iter |-> 1 + ls.iter, cont |-> p.ret /\ a.vl_fatal = "none"]

\* Fault: eval leaves the NBA loop after the first sweep, whatever the NBA
\* phase reported.
eval__trip_nba_once(ls) ==
    IF ~ls.cont \/ ls.st.vl_fatal # "none" THEN ls
    ELSE IF ConvergeLimit < ls.iter
    THEN [ls EXCEPT !.st = VL_FATAL_MT(ls.st, "NBA region did not converge.")]
    ELSE LET a == eval__while_act(
                      [ls.st EXCEPT !.__VactIterCount = 0, !.__VactContinue = 1],
                      ConvergeLimit + 2)
         IN  IF a.vl_fatal # "none"
             THEN [st |-> a, iter |-> 1 + ls.iter, cont |-> FALSE]
             ELSE LET p == Vregfile___024root___eval_phase__nba(a)
                  IN  [st |-> p.st, iter |-> 1 + ls.iter, cont |-> FALSE]

\* One trip of the NBA loop of eval, a sweep: the active loop, then the NBA
\* phase; iter and cont are its locals __VnbaIterCount and __VnbaContinue.
eval__trip_nba(ls) ==
    IF ~ls.cont \/ ls.st.vl_fatal # "none" THEN ls
    ELSE IF ConvergeLimit < ls.iter
    THEN [ls EXCEPT !.st = VL_FATAL_MT(ls.st, "NBA region did not converge.")]
    ELSE LET a == eval__while_act(
                      [ls.st EXCEPT !.__VactIterCount = 0, !.__VactContinue = 1],
                      ConvergeLimit + 2)
         IN  IF a.vl_fatal # "none"
             THEN [st |-> a, iter |-> 1 + ls.iter, cont |-> FALSE]
             ELSE LET p == Vregfile___024root___eval_phase__nba(a)
                  IN  [st |-> p.st, iter |-> 1 + ls.iter, cont |-> p.ret]

RECURSIVE eval__while_nba(_, _)
eval__while_nba(ls, n) ==
    IF ~ls.cont \/ ls.st.vl_fatal # "none" \/ n = 0 THEN ls
    ELSE IF n = 1 THEN eval__trip_nba(ls)
    ELSE eval__while_nba(eval__while_nba(ls, n \div 2), n - (n \div 2))

Vregfile___024root___eval(st0) ==
    eval__while_nba([st |-> DBG(st0, "eval"), iter |-> 0, cont |-> TRUE],
                    ConvergeLimit + 2).st

\* ------------------------------------------------------- initialisation
\* Fault: eval_static leaves the edge snapshots as the constructor made them.
Vregfile___024root___eval_static_skip(st0) == DBG(st0, "eval_static")

\* Fault: eval_static clears the edge snapshots.
Vregfile___024root___eval_static_zero(st0) ==
    LET st == DBG(st0, "eval_static")
    IN  [st EXCEPT !.__Vtrigprevexpr___TOP__clock__0 = 0,
                   !.__Vtrigprevexpr___TOP__reset__0 = 0]

\* __Vtrigprevexpr___TOP__clock__0 = clock; __Vtrigprevexpr___TOP__reset__0 = reset
Vregfile___024root___eval_static(st0) ==
    LET st == DBG(st0, "eval_static")
    IN  [st EXCEPT !.__Vtrigprevexpr___TOP__clock__0 = st.clock,
                   !.__Vtrigprevexpr___TOP__reset__0 = st.reset]

Vregfile___024root___eval_initial(st) == DBG(st, "eval_initial")

\* Verilated::overWidthError: the runtime reports the over-width input by
\* name; the report is fatal.
Verilated__overWidthError(st, signame) ==
    VL_FATAL_MT([st EXCEPT !.diag = Append(@, signame)], "overWidthError")

\* Fault: the assertions test bits 2-7 only.
Vregfile___024root___eval_debug_assertions_fc(st0) ==
    LET st == DBG(st0, "eval_debug_assertions")
        s1 == IF (st.clock \div 4) % 64 # 0
              THEN Verilated__overWidthError(st, "clock") ELSE st
    IN  IF s1.vl_fatal # "none" THEN s1
        ELSE IF (s1.reset \div 4) % 64 # 0
        THEN Verilated__overWidthError(s1, "reset") ELSE s1

\* if (clock & 0xfe) overWidthError("clock"); if (reset & 0xfe) ...
Vregfile___024root___eval_debug_assertions(st0) ==
    LET st == DBG(st0, "eval_debug_assertions")
        s1 == IF (st.clock \div 2) % 128 # 0
              THEN Verilated__overWidthError(st, "clock") ELSE st
    IN  IF s1.vl_fatal # "none" THEN s1
        ELSE IF (s1.reset \div 2) % 128 # 0
        THEN Verilated__overWidthError(s1, "reset") ELSE s1

\* Fault: eval_step never records that the initialisation was done.
Vregfile__eval_step_reinit(st0) ==
    LET sd == DBG(st0, "eval_step")
        st == IF vl_debug THEN Vregfile___024root___eval_debug_assertions(sd)
              ELSE sd
        s1 == IF ~st.__Vm_didInit
              THEN Vregfile___024root___eval_settle(
                     Vregfile___024root___eval_initial(
                       Vregfile___024root___eval_static(st)))
              ELSE st
    IN  IF st.vl_fatal # "none" THEN st
        ELSE IF s1.vl_fatal # "none" THEN s1
        ELSE Vregfile___024root___eval(s1)

Vregfile__eval_step(st0) ==
    LET sd == DBG(st0, "eval_step")
        st == IF vl_debug THEN Vregfile___024root___eval_debug_assertions(sd)
              ELSE sd
        s1 == IF ~st.__Vm_didInit
              THEN Vregfile___024root___eval_settle(
                     Vregfile___024root___eval_initial(
                       Vregfile___024root___eval_static(
                         [st EXCEPT !.__Vm_didInit = TRUE])))
              ELSE st
    IN  IF st.vl_fatal # "none" THEN st
        ELSE IF s1.vl_fatal # "none" THEN s1
        ELSE Vregfile___024root___eval(s1)

\* The instances the constructor can produce: ports and edge snapshots get
\* VL_SCOPED_RAND_RESET_I values of their width, the register is zero.  The
\* members the constructor leaves alone are written before they are read.
Vregfile___024root___ctor_var_reset ==
    { [ clock |-> c, reset |-> r, val |-> v,
        regfile__DOT__regs |-> <<0, 0, 0, 0>>,
        __Vtrigprevexpr___TOP__clock__0 |-> pc,
        __Vtrigprevexpr___TOP__reset__0 |-> pr,
        __VstlFirstIteration |-> 0,
        __VactContinue |-> 0,
        __VactIterCount |-> 0,
        __VstlTriggered |-> {},
        __VactTriggered |-> {},
        __VnbaTriggered |-> {},
        __Vm_didInit |-> FALSE,
        vl_fatal |-> "none",
        diag |-> << >>,
        dbg |-> << >> ]
      : c \in {0, 1}, r \in {0, 1}, v \in ValInit, pc \in {0, 1}, pr \in {0, 1} }

\* -------------------------------------------------------------- actions
\* The driver writes the public reference Vregfile::clock, a CData.
SetClock(v) ==
    /\ vlSymsp.vl_fatal = "none"
    /\ vlSymsp' = [vlSymsp EXCEPT !.clock = v % 256]
    /\ UNCHANGED <<rig, vl_debug, nEvals, pre, lastIn, k, two, twoEvals, twoLast, main>>

\* The driver writes the public reference Vregfile::reset, a CData.
SetReset(v) ==
    /\ vlSymsp.vl_fatal = "none"
    /\ vlSymsp' = [vlSymsp EXCEPT !.reset = v % 256]
    /\ UNCHANGED <<rig, vl_debug, nEvals, pre, lastIn, k, two, twoEvals, twoLast, main>>

\* History kept for the edge-counting property: the count of rising clock
\* edges since the register was last cleared on a clock edge, told from the
\* driver's inputs alone; -1 when the inputs left the one-bit clock-toggling
\* scenario.
NextK(in0, in1) ==
    IF in0 = << >> THEN k
    ELSE IF \E x \in {in0[1], in0[2], in1[1], in1[2]} : x \notin {0, 1} THEN -1
    ELSE LET clockRose == in0[1] = 0 /\ in1[1] = 1
         IN  IF in1[2] = 1 THEN (IF clockRose THEN 0 ELSE -1)
             ELSE IF clockRose THEN (IF k >= 0 THEN k + 1 ELSE -1)
             ELSE k

\* The driver calls eval(), which is eval_step() for this model.
Evaluate ==
    /\ vlSymsp.vl_fatal = "none"
    /\ nEvals < MaxEvals
    /\ vlSymsp' = Vregfile__eval_step([vlSymsp EXCEPT !.dbg = << >>])
    /\ nEvals' = nEvals + 1
    /\ pre' = vlSymsp
    /\ lastIn' = IF nEvals = 0 THEN << >> ELSE <<pre.clock, pre.reset>>
    /\ k' = NextK(IF nEvals = 0 THEN << >> ELSE <<pre.clock, pre.reset>>,
                  <<vlSymsp.clock, vlSymsp.reset>>)
    /\ UNCHANGED <<rig, vl_debug, two, twoEvals, twoLast, main>>

Next ==
    \/ \E v \in InputValues : SetClock(v)
    \/ \E v \in InputValues : SetReset(v)
    \/ Evaluate

\* A freshly constructed instance.
Init ==
    /\ vlSymsp \in Vregfile___024root___ctor_var_reset
    /\ rig = "none"
    /\ vl_debug = FALSE
    /\ two = << >> /\ twoEvals = 0 /\ twoLast = 0
    /\ main = << >>
    /\ nEvals = 0
    /\ pre = vlSymsp
    /\ lastIn = << >>
    /\ k = 0

Spec == Init /\ [][Next]_vars

\* An instance whose register holds an arbitrary value.
InitReg ==
    /\ vlSymsp \in { [st EXCEPT !.regfile__DOT__regs = r] :
                          st \in Vregfile___024root___ctor_var_reset, r \in RegSamples }
    /\ rig = "none"
    /\ vl_debug = FALSE
    /\ two = << >> /\ twoEvals = 0 /\ twoLast = 0
    /\ main = << >>
    /\ nEvals = 0
    /\ pre = vlSymsp
    /\ lastIn = << >>
    /\ k = -1

SpecReg == InitReg /\ [][Next]_vars

\* An instance under a rig that makes one region report activity on every pass.
InitRigged ==
    /\ vlSymsp \in Vregfile___024root___ctor_var_reset
    /\ rig \in {"none", "stl", "act", "nba"}
    /\ vl_debug = FALSE
    /\ two = << >> /\ twoEvals = 0 /\ twoLast = 0
    /\ main = << >>
    /\ nEvals = 0
    /\ pre = vlSymsp
    /\ lastIn = << >>
    /\ k = 0

SpecRigged == InitRigged /\ [][Next]_vars

\* A freshly constructed instance of either build, with VL_DEBUG or without.
InitDebug ==
    /\ vlSymsp \in Vregfile___024root___ctor_var_reset
    /\ rig = "none"
    /\ vl_debug \in BOOLEAN
    /\ two = << >> /\ twoEvals = 0 /\ twoLast = 0
    /\ main = << >>
    /\ nEvals = 0
    /\ pre = vlSymsp
    /\ lastIn = << >>
    /\ k = 0

SpecDebug == InitDebug /\ [][Next]_vars

\* ===================================================================
\* Properties
\* ===================================================================
regs == vlSymsp.regfile__DOT__regs
val  == vlSymsp.val
dbg  == vlSymsp.dbg

\* How many times the latest eval_step entered the function named msg.
Count(msg) == Cardinality({i \in 1..Len(dbg) : dbg[i].msg = msg})

\* Executions of the sequential logic block in the latest eval_step.
SeqRuns == Count("nba_sequent__TOP__0")

\* The latest eval_step was not the first, and the driver's clock (reset) was
\* 0 at the eval_step before it and 1 at the latest.
ClockRose == nEvals >= 2 /\ lastIn[1] = 0 /\ pre.clock = 1
ResetRose == nEvals >= 2 /\ lastIn[2] = 0 /\ pre.reset = 1

\* A one-bit signal that stayed 0, stayed 1 or fell.
NoRise(old, new) == <<old, new>> \in {<<0, 0>>, <<1, 1>>, <<1, 0>>}

\* C1: an evaluate whose clock and reset are those of the evaluate before it
\* changes neither the register nor val, the second evaluate of an instance
\* included.
C1_Idempotent ==
    (nEvals >= 2 /\ lastIn = <<pre.clock, pre.reset>>)
        => (regs = pre.regfile__DOT__regs /\ val = pre.val)

C1_Witness ==
    /\ nEvals = 2
    /\ lastIn = <<1, 0>>
    /\ pre.clock = 1 /\ pre.reset = 0
    /\ Count("eval_phase__nba") = 1

\* C2: whatever the register held, an evaluate that sees clock rise while
\* reset is 1 leaves the register's low 32 bits and the 16 bits above them
\* zero, and val has bits 0 to 3 clear.
C2_ResetClears ==
    (ClockRose /\ pre.reset = 1)
        => /\ regs[1] = 0 /\ regs[2] = 0 /\ regs[3] = 0
           /\ \A i \in 0..3 : Bit(val[1], i) = 0

C2_Witness ==
    /\ ClockRose /\ pre.reset = 1
    /\ pre.regfile__DOT__regs = <<65535, 65535, 65535, 65535>>
    /\ regs = <<0, 0, 0, 0>>
    /\ SeqRuns = 1

\* C3, as claimed: an evaluate that sees clock rise while reset is 0 adds one
\* to the register's low 32 bits modulo 2^32 and adds one to bits 32-47
\* modulo 2^16.
C3_Original ==
    (ClockRose /\ pre.reset = 0)
        => LET old == pre.regfile__DOT__regs
           IN  /\ regs[1] = (old[1] + 1) % 65536
               /\ regs[2] = (old[2] + ((old[1] + 1) \div 65536)) % 65536
               /\ regs[3] = (old[3] + 1) % 65536

\* C3, amended: an evaluate that sees clock rise while reset is 0 adds one to
\* bits 0-15 modulo 2^16 and, independently, one to bits 16-31 modulo 2^16
\* (the 16-bit field lies on the upper half of the low 32 bits and replaces
\* the carry out of bit 15); bits 32-63 keep their value.
C3_Increment ==
    (ClockRose /\ pre.reset = 0)
        => LET old == pre.regfile__DOT__regs
           IN  /\ regs[1] = (old[1] + 1) % 65536
               /\ regs[2] = (old[2] + 1) % 65536
               /\ regs[3] = old[3]
               /\ regs[4] = old[4]

C3_Witness ==
    /\ ClockRose /\ pre.reset = 0
    /\ pre.regfile__DOT__regs = <<65535, 7, 9, 11>>
    /\ regs = <<0, 8, 9, 11>>

C5_Original ==
    nEvals >= 1
        => /\ Bit(val[1], 0) = Bit(regs[1], 0)
           /\ \A i \in 1..3 : Bit(val[1], i) = Bit(regs[2], i - 1)
           /\ \A i \in 4..15 : Bit(val[1], i) = 0
           /\ val[2] = 0

\* C5, amended: after every evaluate, the first included, val bit 0 is bit 0
\* of the register, val bits 1-3 are bits 1-3 of the 16-bit field (register
\* bits 17-19) and val bits 4-31 are zero; the settle block and the
\* sequential block compute this same function of the register.
C5_Output ==
    nEvals >= 1
        => /\ Bit(val[1], 0) = Bit(regs[1], 0)
           /\ \A i \in 1..3 : Bit(val[1], i) = Bit(regs[2], i)
           /\ \A i \in 4..15 : Bit(val[1], i) = 0
           /\ val[2] = 0
           /\ stl_val(regs) = val /\ nba_val(regs) = val

C5_Witness ==
    /\ nEvals = 1
    /\ regs = <<65535, 7, 9, 11>>
    /\ val = <<7, 0>>
    /\ Count("stl_sequent__TOP__0") = 1

\* C6: an evaluate since whose predecessor neither clock nor reset went from
\* 0 to 1 does not run the sequential block and leaves register and val as
\* they were; with one-bit inputs the block runs only when one of them rose.
C6_EdgeOnly ==
    /\ (nEvals >= 2 /\ NoRise(lastIn[1], pre.clock) /\ NoRise(lastIn[2], pre.reset))
          => (SeqRuns = 0 /\ regs = pre.regfile__DOT__regs /\ val = pre.val)
    /\ (nEvals >= 2 /\ {lastIn[1], lastIn[2], pre.clock, pre.reset} \subseteq {0, 1}
          /\ SeqRuns > 0)
          => (ClockRose \/ ResetRose)

C6_Witness ==
    /\ nEvals >= 2
    /\ lastIn = <<1, 0>>
    /\ pre.clock = 0 /\ pre.reset = 0
    /\ regs # <<0, 0, 0, 0>>
    /\ SeqRuns = 0

\* C7: an evaluate runs the sequential block at most once, and exactly once
\* when clock or reset or both rose since the evaluate before it; the active
\* phase finds a trigger in at most one pass.  After k rising clock edges
\* seen with reset low since the register was cleared, val bit 0 is k mod 2.
C7_OncePerEdge ==
    /\ nEvals >= 1 => (SeqRuns <= 1 /\ Count("eval_act") <= 1)
    /\ (ClockRose \/ ResetRose) => SeqRuns = 1
    /\ (nEvals >= 1 /\ k >= 0) => Bit(val[1], 0) = k % 2

C7_Witness ==
    /\ k = 3
    /\ Bit(val[1], 0) = 1
    /\ SeqRuns = 1
    /\ Count("eval_phase__act") = 3

\* The diagnostic of the region the rig keeps active, and the passes that
\* region's loop made in the latest eval_step.
RigDiagnostic ==
    CASE rig = "stl" -> "Settle region did not converge."
      [] rig = "act" -> "Active region did not converge."
      [] rig = "nba" -> "NBA region did not converge."
      [] OTHER       -> "none"

RigPasses ==
    CASE rig = "stl" -> Count("eval_phase__stl")
      [] rig = "act" -> Count("eval_phase__act")
      [] rig = "nba" -> Count("eval_phase__nba")
      [] OTHER       -> 0

\* C8, as claimed: a region whose phase reports activity on every pass is
\* aborted after no more than 100 passes of its loop.
C8_Original ==
    vlSymsp.vl_fatal # "none" => RigPasses <= ConvergeLimit

\* C8, amended: a region whose phase reports activity on every pass makes
\* its loop abort with the diagnostic naming that region once the pass
\* counter has passed the limit of 100, which is after exactly 101 passes;
\* nothing runs after the abort and the evaluate is not retried.
C8_CapEnforced ==
    /\ RigPasses <= ConvergeLimit + 1
    /\ (rig # "none" /\ nEvals >= 1)
          => /\ vlSymsp.vl_fatal = RigDiagnostic
             /\ RigPasses = ConvergeLimit + 1
             /\ nEvals = 1
             /\ dbg[Len(dbg)].msg \in {"eval_phase__stl", "eval_phase__act",
                                       "eval_phase__nba"}
             /\ rig = "stl" => Count("eval") = 0
             /\ rig = "act" => Count("eval_phase__nba") = 0
    /\ vlSymsp.vl_fatal # "none" => rig # "none"

C8_Witness ==
    /\ rig = "nba"
    /\ vlSymsp.vl_fatal = "NBA region did not converge."
    /\ Count("eval_phase__nba") = ConvergeLimit + 1

\* The trace positions of the settle-time functions and of the functions of
\* the active and NBA regions.
SettleMsgs ==
    {"eval_static", "eval_initial", "eval_settle", "eval_phase__stl",
     "eval_stl", "stl_sequent__TOP__0"}

RegionMsgs ==
    {"eval", "eval_phase__act", "eval_act",
     "eval_phase__nba", "eval_nba", "nba_sequent__TOP__0"}

\* C9: the edge snapshot, the initial block and the settle loop run exactly
\* once, in the first evaluate and before any active or NBA function of it;
\* no later evaluate runs them.
C9_SettleOnce ==
    /\ nEvals = 1
          => /\ Count("eval_static") = 1
             /\ Count("eval_initial") = 1
             /\ Count("eval_settle") = 1
             /\ \A i, j \in 1..Len(dbg) :
                    (dbg[i].msg \in SettleMsgs /\ dbg[j].msg \in RegionMsgs) => i < j
             /\ \E j \in 1..Len(dbg) : dbg[j].msg \in RegionMsgs
    /\ nEvals >= 2
          => \A i \in 1..Len(dbg) : dbg[i].msg \notin SettleMsgs
    /\ vlSymsp.__Vm_didInit <=> nEvals >= 1

C9_Witness ==
    /\ nEvals = 2
    /\ Count("eval_settle") = 0
    /\ SeqRuns = 1
    /\ pre.__Vm_didInit

\* C10: in every sweep the NBA phase starts right after an active pass that
\* found no trigger; NBA logic runs only inside the NBA phase; the register
\* changes only in the sequential block, so every active-phase function of a
\* sweep sees the register as it is when the NBA phase of that sweep starts.
C10_RegionOrder ==
    nEvals >= 1 =>
      \A i \in 1..Len(dbg) :
        /\ dbg[i].msg = "eval_phase__nba"
              => (i >= 2 /\ dbg[i - 1].msg = "eval_phase__act")
        /\ dbg[i].msg = "eval_nba"
              => (i >= 2 /\ dbg[i - 1].msg = "eval_phase__nba")
        /\ dbg[i].msg = "nba_sequent__TOP__0"
              => (i >= 2 /\ dbg[i - 1].msg = "eval_nba")
        /\ (i < Len(dbg) /\ dbg[i].regs # dbg[i + 1].regs)
              => dbg[i].msg = "nba_sequent__TOP__0"
        /\ dbg[i].msg \in {"eval_phase__act", "eval_act"}
              => \E j \in (i + 1)..Len(dbg) :
                    /\ dbg[j].msg = "eval_phase__nba"
                    /\ dbg[j].regs = dbg[i].regs
                    /\ \A h \in i..j : dbg[h].msg # "nba_sequent__TOP__0"

C10_Witness ==
    /\ Count("eval_phase__nba") = 2
    /\ Count("eval_phase__act") = 3
    /\ SeqRuns = 1
    /\ regs # pre.regfile__DOT__regs

\* -------------------------------------------------------------- widths
\* Every 16-bit limb of a value is within 16 bits.
Limbs(x, n) == Len(x) = n /\ \A i \in 1..n : x[i] \in 0..65535

\* C11: in every reachable state clock and reset are within 1 bit, val is
\* within 32 bits and the register within 64 bits, whatever the driver wrote.
C11_Original ==
    /\ vlSymsp.clock \in {0, 1}
    /\ vlSymsp.reset \in {0, 1}
    /\ Limbs(val, 2)
    /\ Limbs(regs, 4)

\* ------------------------------------------------------- two instances
MaxTwoEvals == 2

\* The driver writes the clock (reset) reference of instance i.
TwoSetClock(i, v) ==
    /\ two[i].vl_fatal = "none"
    /\ two' = [two EXCEPT ![i].clock = v % 256]
    /\ twoLast' = i
    /\ UNCHANGED <<vlSymsp, rig, vl_debug, nEvals, pre, lastIn, k, twoEvals, main>>

TwoSetReset(i, v) ==
    /\ two[i].vl_fatal = "none"
    /\ two' = [two EXCEPT ![i].reset = v % 256]
    /\ twoLast' = i
    /\ UNCHANGED <<vlSymsp, rig, vl_debug, nEvals, pre, lastIn, k, twoEvals, main>>

\* Fault: the initialisation flag is a static shared by every instance.
TwoEvaluate_static(i) ==
    /\ two[i].vl_fatal = "none"
    /\ twoEvals < MaxTwoEvals
    /\ two' = [j \in {1, 2} |->
                 IF j = i THEN Vregfile__eval_step([two[j] EXCEPT !.dbg = << >>])
                 ELSE [two[j] EXCEPT !.__Vm_didInit = TRUE]]
    /\ twoEvals' = twoEvals + 1
    /\ twoLast' = i
    /\ UNCHANGED <<vlSymsp, rig, vl_debug, nEvals, pre, lastIn, k, main>>

\* The driver calls eval() on instance i: eval_step works on the
\* Vregfile__Syms the instance allocated in its constructor.
TwoEvaluate(i) ==
    /\ two[i].vl_fatal = "none"
    /\ twoEvals < MaxTwoEvals
    /\ two' = [two EXCEPT ![i] = Vregfile__eval_step([@ EXCEPT !.dbg = << >>])]
    /\ twoEvals' = twoEvals + 1
    /\ twoLast' = i
    /\ UNCHANGED <<vlSymsp, rig, vl_debug, nEvals, pre, lastIn, k, main>>

NextTwo ==
    \/ \E i \in {1, 2}, v \in InputValues : TwoSetClock(i, v)
    \/ \E i \in {1, 2}, v \in InputValues : TwoSetReset(i, v)
    \/ \E i \in {1, 2} : TwoEvaluate(i)

\* Two separately constructed instances.
InitTwo ==
    /\ two \in { <<a, b>> : a \in Vregfile___024root___ctor_var_reset,
                            b \in Vregfile___024root___ctor_var_reset }
    /\ two[1].val = <<0, 0>> /\ two[2].val = <<65535, 65535>>
    /\ two[1].clock = two[1].__Vtrigprevexpr___TOP__clock__0
    /\ two[1].reset = two[1].__Vtrigprevexpr___TOP__reset__0
    /\ two[2].clock = 0 /\ two[2].reset = 0
    /\ two[2].__Vtrigprevexpr___TOP__clock__0 = 1
    /\ two[2].__Vtrigprevexpr___TOP__reset__0 = 1
    /\ twoEvals = 0
    /\ twoLast = 0
    /\ main = << >>
    /\ vlSymsp = << >>
    /\ rig = "none"
    /\ vl_debug = FALSE
    /\ nEvals = 0
    /\ pre = << >>
    /\ lastIn = << >>
    /\ k = 0

SpecTwo == InitTwo /\ [][NextTwo]_vars

MaxPairEvals == 3

\* The driver performs the same operation on both instances.
PairSetClock(v) ==
    /\ \A i \in {1, 2} : two[i].vl_fatal = "none"
    /\ two' = [i \in {1, 2} |-> [two[i] EXCEPT !.clock = v % 256]]
    /\ twoLast' = 0
    /\ UNCHANGED <<vlSymsp, rig, vl_debug, nEvals, pre, lastIn, k, twoEvals, main>>

PairSetReset(v) ==
    /\ \A i \in {1, 2} : two[i].vl_fatal = "none"
    /\ two' = [i \in {1, 2} |-> [two[i] EXCEPT !.reset = v % 256]]
    /\ twoLast' = 0
    /\ UNCHANGED <<vlSymsp, rig, vl_debug, nEvals, pre, lastIn, k, twoEvals, main>>

PairEvaluate ==
    /\ \A i \in {1, 2} : two[i].vl_fatal = "none"
    /\ twoEvals < MaxPairEvals
    /\ two' = [i \in {1, 2} |->
                 Vregfile__eval_step([two[i] EXCEPT !.dbg = << >>])]
    /\ twoEvals' = twoEvals + 1
    /\ twoLast' = 0
    /\ UNCHANGED <<vlSymsp, rig, vl_debug, nEvals, pre, lastIn, k, main>>

NextPair ==
    \/ \E v \in InputValues : PairSetClock(v)
    \/ \E v \in InputValues : PairSetReset(v)
    \/ PairEvaluate

\* Two constructed instances with the same clock and reset that differ in
\* the values the constructor is free to choose: val and the edge snapshots.
InitPair ==
    /\ two \in { <<a, b>> : a \in Vregfile___024root___ctor_var_reset,
                            b \in Vregfile___024root___ctor_var_reset }
    /\ two[1].clock = two[2].clock
    /\ two[1].reset = two[2].reset
    /\ two[1] # two[2]
    /\ twoEvals = 0
    /\ twoLast = 0
    /\ main = << >>
    /\ vlSymsp = << >>
    /\ rig = "none"
    /\ vl_debug = FALSE
    /\ nEvals = 0
    /\ pre = << >>
    /\ lastIn = << >>
    /\ k = 0

SpecPair == InitPair /\ [][NextPair]_vars

\* C13: the register is zero after construct, and two instances that differ
\* only in the constructor's choice of val and of the edge snapshots hold the
\* same register and the same val after every evaluate of a common sequence
\* of operations, the first included, where val is already the output of the
\* zero register.
C13_Deterministic ==
    /\ twoEvals = 0 => \A i \in {1, 2} : two[i].regfile__DOT__regs = <<0, 0, 0, 0>>
    /\ twoEvals >= 1
          => /\ two[1].regfile__DOT__regs = two[2].regfile__DOT__regs
             /\ two[1].val = two[2].val
    /\ twoEvals = 1 => two[1].val = <<0, 0>>

C13_Witness ==
    /\ twoEvals = 2
    /\ two[1].regfile__DOT__regs = <<1, 1, 0, 0>>
    /\ two[2].regfile__DOT__regs = <<1, 1, 0, 0>>
    /\ two[1].val = <<1, 0>>
    /\ two[2].val = <<1, 0>>

\* ---------------------------------------------- non-blocking assignment
\* The places of the latest eval_step's trace where the register differs
\* from what the next entry (or, at the last entry, the final state) shows.
RegWrites ==
    {i \in 1..Len(dbg) :
        dbg[i].regs # (IF i < Len(dbg) THEN dbg[i + 1].regs ELSE regs)}

\* C14: when the sequential block runs, every field of the new register is
\* computed from the register as it was at block entry (the field at bits
\* 16-31 takes no carry from the low field's new value), the register is
\* written once, and val is the output of the register just written.
C14_NonBlocking ==
    (nEvals >= 1 /\ SeqRuns = 1)
        => LET old == pre.regfile__DOT__regs
           IN  /\ pre.reset # 0 => regs = <<0, 0, 0, 0>>
               /\ pre.reset = 0
                     => regs = << (old[1] + 1) % 65536, (old[2] + 1) % 65536,
                                  old[3], old[4] >>
               /\ val = << (((regs[2] \div 2) % 8) * 2) + (regs[1] % 2), 0 >>
               /\ Cardinality(RegWrites) <= 1
               /\ \A i \in RegWrites : dbg[i].msg = "nba_sequent__TOP__0"

C14_Witness ==
    /\ SeqRuns = 1
    /\ pre.reset = 0
    /\ pre.regfile__DOT__regs = <<65535, 7, 9, 11>>
    /\ regs = <<0, 8, 9, 11>>
    /\ val = <<8, 0>>
    /\ Cardinality(RegWrites) = 1

\* ------------------------------------------------------ fixed-point exit
\* C15: an eval_step returns at the end of a sweep made of one active pass
\* that found no trigger and an NBA phase that ran no logic, with both
\* trigger vectors empty; after every run of the NBA logic a further sweep
\* (an active pass, then the NBA phase) follows before the return.
C15_FixedPoint ==
    nEvals >= 1 =>
      LET n == Len(dbg)
      IN  /\ n >= 3
          /\ dbg[n].msg = "eval_phase__nba"
          /\ dbg[n - 1].msg = "eval_phase__act"
          /\ dbg[n - 2].msg \in {"eval", "eval_phase__nba", "nba_sequent__TOP__0"}
          /\ vlSymsp.__VactTriggered = {}
          /\ vlSymsp.__VnbaTriggered = {}
          /\ \A i \in 1..n :
                dbg[i].msg = "eval_nba"
                   => \E j \in (i + 1)..n, h \in (i + 2)..n :
                         /\ j < h
                         /\ dbg[j].msg = "eval_phase__act"
                         /\ dbg[h].msg = "eval_phase__nba"

C15_Witness ==
    /\ ResetRose
    /\ Count("eval_nba") = 1
    /\ Len(dbg) >= 3
    /\ dbg[Len(dbg)].msg = "eval_phase__nba"
    /\ dbg[Len(dbg) - 1].msg = "eval_phase__act"
    /\ dbg[Len(dbg) - 2].msg = "nba_sequent__TOP__0"

\* ----------------------------------------------------------- convergence
\* The places of the latest eval_step's trace where an active pass starts.
ActPasses == {i \in 1..Len(dbg) : dbg[i].msg = "eval_phase__act"}

\* C16: no eval_step ends in a convergence failure.  The settle loop of the
\* first eval_step makes exactly 2 passes and runs the settle block once;
\* every active loop makes at most 2 passes (three active passes are never
\* without an NBA phase between them) and the NBA loop at most 2 sweeps.
C16_Converges ==
    /\ vlSymsp.vl_fatal = "none"
    /\ nEvals = 1 => /\ Count("eval_phase__stl") = 2
                     /\ Count("stl_sequent__TOP__0") = 1
    /\ nEvals >= 2 => Count("eval_phase__stl") = 0
    /\ nEvals >= 1
          => /\ Count("eval_phase__nba") \in {1, 2}
             /\ vlSymsp.__VactIterCount \in {1, 2}
             /\ \A i, j, h \in ActPasses :
                   (i < j /\ j < h)
                      => \E m \in i..h : dbg[m].msg = "eval_phase__nba"

C16_Witness ==
    /\ ClockRose /\ ResetRose
    /\ vlSymsp.vl_fatal = "none"
    /\ Cardinality(ActPasses) = 3
    /\ Count("eval_phase__nba") = 2
    /\ Count("eval_act") = 1

\* -------------------------------------------------------- first evaluate
\* C17: the first eval_step of an instance runs no active and no sequential
\* logic, whatever clock, reset and the constructor's snapshots were; after
\* it the register is 0, val is 0 and the snapshots hold the inputs.
C17_FirstQuiet ==
    nEvals = 1
       => /\ Count("eval_act") = 0
          /\ Count("eval_nba") = 0
          /\ SeqRuns = 0
          /\ regs = <<0, 0, 0, 0>>
          /\ val = <<0, 0>>
          /\ vlSymsp.__Vtrigprevexpr___TOP__clock__0 = pre.clock
          /\ vlSymsp.__Vtrigprevexpr___TOP__reset__0 = pre.reset

C17_Witness ==
    /\ nEvals = 1
    /\ pre.clock = 1 /\ pre.reset = 1
    /\ pre.__Vtrigprevexpr___TOP__clock__0 = 0
    /\ pre.__Vtrigprevexpr___TOP__reset__0 = 0
    /\ pre.val = <<65535, 65535>>
    /\ val = <<0, 0>>
    /\ ~pre.__Vm_didInit /\ vlSymsp.__Vm_didInit

\* ----------------------------------------------------- asynchronous reset
\* C18: a rising reset clears the register in that eval_step even when clock
\* did not rise; the register changes only when the sequential block ran, and
\* the block takes its increment branch only in an eval_step where clock rose
\* while reset is 0; while clock stays as it was, whatever reset does, the
\* register keeps its value or becomes 0.
C18_AsyncReset ==
    nEvals >= 1 =>
      LET old == pre.regfile__DOT__regs
      IN  /\ (ResetRose /\ ~Rose(pre.clock, lastIn[1]))
                => (SeqRuns = 1 /\ regs = <<0, 0, 0, 0>>)
          /\ regs # old => SeqRuns = 1
          /\ (SeqRuns >= 1 /\ pre.reset = 0)
                => /\ nEvals >= 2
                   /\ Rose(pre.clock, lastIn[1])
                   /\ (lastIn[1] \in {0, 1} /\ pre.clock \in {0, 1}) => ClockRose
          /\ (nEvals >= 2 /\ lastIn[1] = pre.clock)
                => regs \in {old, <<0, 0, 0, 0>>}

C18_Witness ==
    /\ ResetRose
    /\ lastIn[1] = 1 /\ pre.clock = 1
    /\ pre.regfile__DOT__regs = <<4, 6, 1, 32768>>
    /\ SeqRuns = 1
    /\ regs = <<0, 0, 0, 0>>

\* --------------------------------------------------------- register shape
\* Register values an instance reaches from its construction: after n rising
\* clock edges since the last clear both 16-bit halves of the low word hold
\* n mod 2^16 and the upper word is 0.
ShapeSamples ==
    { <<0, 0, 0, 0>>, <<15, 15, 0, 0>>, <<65534, 65534, 0, 0>>,
      <<65535, 65535, 0, 0>> }

\* An instance as its latest eval_step left it after that many rising clock
\* edges: settled, reset at 0, the snapshots equal to the inputs, val computed
\* from the register, and the edge count known.
InitShape ==
    /\ vlSymsp \in { [st EXCEPT !.regfile__DOT__regs = r,
                                !.val = nba_val(r),
                                !.reset = 0,
                                !.__Vtrigprevexpr___TOP__clock__0 = st.clock,
                                !.__Vtrigprevexpr___TOP__reset__0 = 0,
                                !.__Vm_didInit = TRUE] :
                          st \in Vregfile___024root___ctor_var_reset,
                          r \in ShapeSamples }
    /\ rig = "none"
    /\ vl_debug = FALSE
    /\ two = << >> /\ twoEvals = 0 /\ twoLast = 0
    /\ main = << >>
    /\ nEvals = 1
    /\ pre = vlSymsp
    /\ lastIn = << >>
    /\ k = vlSymsp.regfile__DOT__regs[1]

SpecShape == InitShape /\ [][Next]_vars

\* C19: in every state reached from construction bits 32-63 of the register
\* are 0 and bits 16-31 equal bits 0-15; both hold the number of rising clock
\* edges since the last clear, and after every eval_step val is the low 4
\* bits of the register.
C19_Shape ==
    /\ regs[3] = 0 /\ regs[4] = 0
    /\ regs[2] = regs[1]
    /\ regs[1] \in 0..65535
    /\ (nEvals >= 1 /\ k >= 0) => regs[1] = k % 65536
    /\ nEvals >= 1 => val = <<regs[1] % 16, 0>>

C19_Witness ==
    /\ SeqRuns = 1
    /\ pre.reset = 0
    /\ pre.regfile__DOT__regs = <<65535, 65535, 0, 0>>
    /\ regs = <<0, 0, 0, 0>>
    /\ pre.val = <<15, 0>>
    /\ val = <<0, 0>>

\* ------------------------------------------------------- width violation
\* A port value with a bit above bit 0 set.
OverWidth(x) == x \div 2 # 0

\* C20: in a build with VL_DEBUG every eval_step first runs the debug
\* assertions; when clock or reset holds a value with a bit above bit 0 set
\* the runtime reports an over-width input by name (clock is tested first and
\* the report is fatal, so reset is named when clock is within its width) and
\* no settle, active or NBA logic of that call has run; in a build without
\* VL_DEBUG the assertions are not run and nothing is reported.
C20_WidthReport ==
    nEvals >= 1 =>
      /\ vl_debug
            => /\ Len(dbg) >= 2
               /\ dbg[1].msg = "eval_step"
               /\ dbg[2].msg = "eval_debug_assertions"
               /\ Count("eval_debug_assertions") = 1
               /\ OverWidth(pre.clock) => vlSymsp.diag = <<"clock">>
               /\ (~OverWidth(pre.clock) /\ OverWidth(pre.reset))
                     => vlSymsp.diag = <<"reset">>
               /\ (~OverWidth(pre.clock) /\ ~OverWidth(pre.reset))
                     => (vlSymsp.diag = << >> /\ vlSymsp.vl_fatal = "none")
               /\ vlSymsp.diag # << >>
                     => /\ vlSymsp.vl_fatal = "overWidthError"
                        /\ Len(dbg) = 2
                        /\ regs = pre.regfile__DOT__regs
                        /\ val = pre.val
                        /\ vlSymsp.__Vm_didInit = pre.__Vm_didInit
      /\ ~vl_debug
            => /\ Count("eval_debug_assertions") = 0
               /\ vlSymsp.diag = << >>
               /\ vlSymsp.vl_fatal = "none"

C20_Witness ==
    /\ vl_debug
    /\ nEvals = 2
    /\ pre.clock = 1
    /\ pre.reset = 2
    /\ vlSymsp.diag = <<"reset">>
    /\ vlSymsp.vl_fatal = "overWidthError"
    /\ Len(dbg) = 2

\* ------------------------------------------------------ the generated main
MaxMainTime == 3

\* Fault: the model reports pending events.
Vregfile__eventsPending_true == TRUE

\* bool Vregfile::eventsPending() { return false; }
Vregfile__eventsPending == FALSE

\* The final blocks of the design: there are none.
Vregfile___024root___eval_final(st) == DBG(st, "eval_final")

Vregfile__final(st) == Vregfile___024root___eval_final(st)

\* while (!contextp->gotFinish()): the loop test.
MainWhile ==
    /\ main.pc = "while"
    /\ main' = [main EXCEPT !.pc = IF ~main.gotFinish THEN "eval" ELSE "final"]
    /\ UNCHANGED <<vlSymsp, rig, vl_debug, nEvals, pre, lastIn, k, two, twoEvals, twoLast>>

\* topp->eval(); a fatal error inside it aborts the process.
MainEval ==
    /\ main.pc = "eval"
    /\ LET t == Vregfile__eval_step([main.top EXCEPT !.dbg = << >>])
       IN  main' = [main EXCEPT !.top = t,
                                !.evals = @ + 1,
                                !.pc = IF t.vl_fatal # "none" THEN "abort"
                                       ELSE "pending"]
    /\ UNCHANGED <<vlSymsp, rig, vl_debug, nEvals, pre, lastIn, k, two, twoEvals, twoLast>>

\* if (!topp->eventsPending()) break; contextp->timeInc(1);
MainPending ==
    /\ main.pc = "pending"
    /\ IF ~Vregfile__eventsPending
       THEN main' = [main EXCEPT !.pc = "final"]
       ELSE /\ main.time < MaxMainTime
            /\ main' = [main EXCEPT !.time = @ + 1, !.pc = "while"]
    /\ UNCHANGED <<vlSymsp, rig, vl_debug, nEvals, pre, lastIn, k, two, twoEvals, twoLast>>

\* topp->final(); then the summary and return 0.
MainFinal ==
    /\ main.pc = "final"
    /\ main' = [main EXCEPT !.atFinal = main.top,
                            !.top = Vregfile__final(main.top),
                            !.finals = @ + 1,
                            !.pc = "done"]
    /\ UNCHANGED <<vlSymsp, rig, vl_debug, nEvals, pre, lastIn, k, two, twoEvals, twoLast>>

NextMain ==
    \/ MainWhile
    \/ MainEval
    \/ MainPending
    \/ MainFinal

\* main() has built its context and its model and stands before the loop.
InitMain ==
    /\ main \in { [pc |-> "while", time |-> 0, gotFinish |-> FALSE,
                   evals |-> 0, finals |-> 0, top |-> t, atFinal |-> t]
                  : t \in Vregfile___024root___ctor_var_reset }
    /\ vlSymsp = << >>
    /\ rig = "none"
    /\ vl_debug = FALSE
    /\ nEvals = 0
    /\ pre = << >>
    /\ lastIn = << >>
    /\ k = 0
    /\ two = << >> /\ twoEvals = 0 /\ twoLast = 0

SpecMain == InitMain /\ [][NextMain]_vars

\* The fields of an instance other than the call trace.
Signals(t) == [t EXCEPT !.dbg = << >>]

\* The number of steps main() has yet to take from a position.
MainRank ==
    CASE main.pc = "while"   -> 4
      [] main.pc = "eval"    -> 3
      [] main.pc = "pending" -> 2
      [] main.pc = "final"   -> 1
      [] OTHER               -> 0

C21_Safe ==
    /\ main.pc \in {"while", "eval", "pending", "final", "done"}
    /\ main.pc = "pending" => ~Vregfile__eventsPending
    /\ main.time = 0
    /\ main.evals = (IF main.pc \in {"while", "eval"} THEN 0 ELSE 1)
    /\ main.finals = (IF main.pc = "done" THEN 1 ELSE 0)
    /\ main.pc = "done"
          => /\ Signals(main.top) = Signals(main.atFinal)
             /\ main.top.dbg[Len(main.top.dbg)].msg = "eval_final"
             /\ main.top.__Vm_didInit

\* C21: main() terminates (every step it takes brings it one step closer to
\* its return and no call aborts): it calls eval once, leaves the loop because
\* no events are pending without advancing the time, calls final once, and
\* final changes nothing of the instance.
C21_DriverLoop == []C21_Safe /\ [][MainRank' < MainRank]_vars

C21_Witness ==
    /\ main.pc = "done"
    /\ main.evals = 1
    /\ main.finals = 1
    /\ main.time = 0
    /\ main.atFinal.val = <<0, 0>>
    /\ main.top.val = <<0, 0>>

\* ------------------------------------------------------- trigger hand-over
\* C22: every trigger an active pass detects is in the NBA vector when the
\* active logic is entered and still there when the NBA logic of the same
\* eval_step is entered, which then runs the sequential block; once the NBA
\* logic has run the vector is empty, so every later pass of the call and
\* the return see it empty, and the sequential block runs only in an
\* eval_step whose own active pass detected a trigger.
C22_NoTriggerLost ==
    nEvals >= 1 =>
      /\ vlSymsp.__VnbaTriggered = {}
      /\ dbg[1].nba = {}
      /\ \A i \in 1..Len(dbg) :
           /\ dbg[i].msg = "eval_act"
                 => /\ dbg[i].act # {}
                    /\ dbg[i].act \subseteq dbg[i].nba
                    /\ \E j \in (i + 1)..(Len(dbg) - 1) :
                          /\ dbg[j].msg = "eval_nba"
                          /\ dbg[i].act \subseteq dbg[j].nba
                          /\ dbg[j + 1].msg = "nba_sequent__TOP__0"
           /\ dbg[i].msg = "eval_nba"
                 => /\ \E h \in 1..(i - 1) :
                          dbg[h].msg = "eval_act" /\ dbg[h].act = dbg[i].nba
                    /\ \A j \in (i + 1)..Len(dbg) :
                          dbg[j].msg \in {"eval_phase__act", "eval_phase__nba"}
                             => dbg[j].nba = {}
      /\ SeqRuns = Count("eval_act")

C22_Witness ==
    /\ ClockRose /\ ResetRose
    /\ \E i \in 1..Len(dbg) : dbg[i].msg = "eval_act" /\ dbg[i].act = {0, 1}
    /\ \E j \in 1..Len(dbg) : dbg[j].msg = "eval_nba" /\ dbg[j].nba = {0, 1}
    /\ SeqRuns = 1
    /\ vlSymsp.__VnbaTriggered = {}

====
